---- MODULE Spec2Model ----
(***************************************************************************)
(* Model of the Sentiview dashboard's analysis request controller:         *)
(*   - App.handleSubmit and the four React state cells (App.tsx),          *)
(*   - analyzeVideoSentiment / extractVideoId of the HTTP api service,     *)
(*   - the video-id extraction of the generative service.                  *)
(* Text is modelled as a sequence of one-character strings so that the     *)
(* regular expressions and String.prototype.trim are computed, not assumed.*)
(***************************************************************************)
EXTENDS Naturals, Sequences, FiniteSets, TLC

VARIABLES url, status, data, error, pending, videoId, reply, logged, uncaught, lastEvent

vars == <<url, status, data, error, pending, videoId, reply, logged, uncaught, lastEvent>>

(***************************************************************************)
(* Characters and literals                                                 *)
(***************************************************************************)
Lower == {"a", "b", "c", "d", "e", "f", "g", "h", "i", "j", "k", "l", "m",
          "n", "o", "p", "q", "r", "s", "t", "u", "v", "w", "x", "y", "z"}
Upper == {"A", "B", "C", "D", "E", "F", "G", "H", "I", "J", "K", "L", "M",
          "N", "O", "P", "Q", "R", "S", "T", "U", "V", "W", "X", "Y", "Z"}
Digit == {"0", "1", "2", "3", "4", "5", "6", "7", "8", "9"}

\* the character class [a-zA-Z0-9_-] and the quantifier {11}
IdChar == Lower \cup Upper \cup Digit \cup {"_", "-"}
IdLen == 11

\* \s, as far as the inputs of the model go (also what trim() strips)
WhiteSpace == {" ", "\t", "\n", "\r"}

L_https == <<"h", "t", "t", "p", "s", ":", "/", "/">>
L_http == <<"h", "t", "t", "p", ":", "/", "/">>
L_www == <<"w", "w", "w", ".">>
L_youtube == <<"y", "o", "u", "t", "u", "b", "e", ".", "c", "o", "m", "/">>
L_youtu_be == <<"y", "o", "u", "t", "u", ".", "b", "e", "/">>
L_embed == <<"e", "m", "b", "e", "d">>
L_watch == <<"w", "a", "t", "c", "h">>
L_qv == <<"?", "v", "=">>
L_unknown == <<"u", "n", "k", "n", "o", "w", "n">>

Min(S) == CHOOSE x \in S : \A y \in S : x <= y
Max(S) == CHOOSE x \in S : \A y \in S : x >= y

RECURSIVE Flatten(_)
Flatten(ss) == IF ss = <<>> THEN <<>> ELSE Head(ss) \o Flatten(Tail(ss))

(***************************************************************************)
(* A backtracking matcher.  Every piece of a pattern maps a position to    *)
(* the sequence of positions it can end at, in the order the engine tries  *)
(* them (greedy first).  Positions are 1-based; an end is the position of  *)
(* the next unread character.                                              *)
(***************************************************************************)
HasAt(s, p, lit) ==
    /\ p + Len(lit) - 1 <= Len(s)
    /\ \A k \in 1..Len(lit) : s[p + k - 1] = lit[k]

\* a literal
Lit(s, p, lit) == IF HasAt(s, p, lit) THEN <<p + Len(lit)>> ELSE <<>>

\* (?:lit)?  greedy: with the literal first, then without
Opt(s, p, lit) == Lit(s, p, lit) \o <<p>>

\* length of the longest run from p of characters outside the set excl
RunLen(s, p, excl) ==
    CHOOSE k \in 0..(Len(s) + 1 - p) :
        /\ \A j \in p..(p + k - 1) : s[j] \notin excl
        /\ (p + k > Len(s) \/ s[p + k] \in excl)

\* [^excl]+  greedy: the longest run first, down to one character
PlusNot(s, p, excl) ==
    IF p > Len(s) THEN <<>>
    ELSE LET n == RunLen(s, p, excl) IN [k \in 1..n |-> p + (n - k + 1)]

\* pieces run one after the other: every end of `from` continued by Step
Then(from, Step(_)) == Flatten([k \in 1..Len(from) |-> Step(from[k])])

\* (?:https?:\/\/)?
SchemeEnds(s, p) == Lit(s, p, L_https) \o Lit(s, p, L_http) \o <<p>>

\* (?:www\.)?
WwwEnds(s, p) == Opt(s, p, L_www)

\* (?:v|e(?:mbed)?)
VEmbedEnds(s, p) == Lit(s, p, <<"v">>) \o Lit(s, p, L_embed) \o Lit(s, p, <<"e">>)

\* ([a-zA-Z0-9_-]{11}) can be read at q
IdAt(s, q) ==
    /\ q >= 1
    /\ q + IdLen - 1 <= Len(s)
    /\ \A j \in q..(q + IdLen - 1) : s[j] \in IdChar

\* String.prototype.trim
Trim(s) ==
    LET keep == {k \in 1..Len(s) : s[k] \notin WhiteSpace}
    IN  IF keep = {} THEN <<>> ELSE SubSeq(s, Min(keep), Max(keep))

(***************************************************************************)
(* The api service's pattern (extractVideoId):                             *)
(*  (?:https?:\/\/)?(?:www\.)?                                             *)
(*  (?: youtube\.com\/(?:[^\/\n\s]+\/\S+\/(?:v|e(?:mbed)?))                *)
(*    | (?:v|e(?:mbed)?|watch)(?:\?v=|\/)                                  *)
(*    | youtu\.be\/ )                                                      *)
(*  ([a-zA-Z0-9_-]{11})                                                    *)
(***************************************************************************)
\* youtube\.com\/(?:[^\/\n\s]+\/\S+\/(?:v|e(?:mbed)?))
ApiUserPathEnds(s, p) ==
    LET Slash(q) == Lit(s, q, <<"/">>)
        Seg(q) == PlusNot(s, q, {"/"} \cup WhiteSpace)
        Rest(q) == PlusNot(s, q, WhiteSpace)
        Tag(q) == VEmbedEnds(s, q)
    IN  Then(Then(Then(Then(Then(Lit(s, p, L_youtube), Seg), Slash), Rest), Slash), Tag)

\* (?:v|e(?:mbed)?|watch)(?:\?v=|\/)
ApiTagEnds(s, p) ==
    LET Sep(q) == Lit(s, q, L_qv) \o Lit(s, q, <<"/">>)
    IN  Then(VEmbedEnds(s, p) \o Lit(s, p, L_watch), Sep)

\* youtu\.be\/
ShortEnds(s, p) == Lit(s, p, L_youtu_be)

ApiAltEnds(s, p) == ApiUserPathEnds(s, p) \o ApiTagEnds(s, p) \o ShortEnds(s, p)

\* every position the capture group can start at for a match starting at i
ApiCands(s, i) ==
    LET Www(q) == WwwEnds(s, q)
        Alt(q) == ApiAltEnds(s, q)
    IN  Then(Then(SchemeEnds(s, i), Www), Alt)

\* start of the capture group of the first successful attempt at i, or 0
FirstId(s, cands) ==
    LET ok == {k \in 1..Len(cands) : IdAt(s, cands[k])}
    IN  IF ok = {} THEN 0 ELSE cands[Min(ok)]

\* input.match(re): start positions are tried from the left; the capture
\* group's start for the first one that matches, 0 for null
RECURSIVE ApiScan(_, _)
ApiScan(s, i) ==
    IF i > Len(s) THEN 0
    ELSE LET q == FirstId(s, ApiCands(s, i))
         IN  IF q # 0 THEN q ELSE ApiScan(s, i + 1)

ApiMatch(s) == ApiScan(s, 1)

\* return match ? match[1] : "unknown";  the other service's fallback
extractOrUnknown(input) ==
    LET q == ApiMatch(input)
    IN  IF q # 0 THEN SubSeq(input, q, q + IdLen - 1) ELSE L_unknown

extractVideoId(input) ==
    LET q == ApiMatch(input)
    IN  IF q # 0 THEN SubSeq(input, q, q + IdLen - 1) ELSE Trim(input)

(***************************************************************************)
(* The generative service's pattern (videoIdMatch):                        *)
(*  (?:https?:\/\/)?(?:www\.)?                                             *)
(*  (?: youtube\.com\/(?: [^\/\n\s]+\/\S+\/ | (?:v|e(?:mbed)?)\/           *)
(*                      | \S*?[?&]v= )                                     *)
(*    | youtu\.be\/ )                                                      *)
(*  ([a-zA-Z0-9_-]{11})                                                    *)
(***************************************************************************)
\* [^excl]*?  lazy: nothing first, up to the longest run
StarNotLazy(s, p, excl) ==
    IF p > Len(s) THEN <<p>>
    ELSE LET n == RunLen(s, p, excl) IN [k \in 1..(n + 1) |-> p + k - 1]

\* youtube\.com\/(?:[^\/\n\s]+\/\S+\/|(?:v|e(?:mbed)?)\/|\S*?[?&]v=)
GenYoutubeEnds(s, p) ==
    LET Slash(q) == Lit(s, q, <<"/">>)
        Seg(q) == PlusNot(s, q, {"/"} \cup WhiteSpace)
        Rest(q) == PlusNot(s, q, WhiteSpace)
        Tag(q) == VEmbedEnds(s, q)
        Skip(q) == StarNotLazy(s, q, WhiteSpace)
        Mark(q) == Lit(s, q, <<"?">>) \o Lit(s, q, <<"&">>)
        VEq(q) == Lit(s, q, <<"v", "=">>)
        UserPath(q) == Then(Then(Then(Seg(q), Slash), Rest), Slash)
        TagPath(q) == Then(Tag(q), Slash)
        Query(q) == Then(Then(Skip(q), Mark), VEq)
        Inner(q) == UserPath(q) \o TagPath(q) \o Query(q)
    IN  Then(Lit(s, p, L_youtube), Inner)

GenCands(s, i) ==
    LET Www(q) == WwwEnds(s, q)
        Alt(q) == GenYoutubeEnds(s, q) \o ShortEnds(s, q)
    IN  Then(Then(SchemeEnds(s, i), Www), Alt)

RECURSIVE GenScan(_, _)
GenScan(s, i) ==
    IF i > Len(s) THEN 0
    ELSE LET q == FirstId(s, GenCands(s, i))
         IN  IF q # 0 THEN q ELSE GenScan(s, i + 1)

GenMatch(s) == GenScan(s, 1)

\* const videoId = videoIdMatch ? videoIdMatch[1] : "unknown"
videoIdMatch(videoUrl) ==
    LET q == GenMatch(videoUrl)
    IN  IF q # 0 THEN SubSeq(videoUrl, q, q + IdLen - 1) ELSE L_unknown

(***************************************************************************)
(* Inputs                                                                  *)
(***************************************************************************)
Id1 == <<"K", "s", "-", "_", "M", "h", "1", "Q", "h", "M", "c">>
Id2 == <<"9", "b", "Z", "k", "p", "7", "q", "1", "9", "f", "0">>
L_abc == <<"a", "b", "c">>
L_ampv == <<"&", "v", "=">>
L_app == <<"?", "a", "p", "p", "=", "d", "e", "s", "k", "t", "o", "p">>
L_time == <<"&", "t", "=", "4", "2", "s">>
Pad == <<" ", " ">>

VideoIds == {Id1, Id2}

\* most pieces an input is put together from
MaxParts == 3

Fragments ==
    {<<" ">>, L_https, L_www, L_youtube, L_youtu_be, L_watch \o L_qv,
     L_embed \o <<"/">>, <<"e">>, Id1, L_abc \o <<"/">>}

RECURSIVE Concats(_)
Concats(n) ==
    IF n = 0 THEN {<<>>}
    ELSE LET shorter == Concats(n - 1)
         IN  shorter \cup {f \o x : f \in Fragments, x \in shorter}

\* the URL shapes the input box is meant to accept, each with the
\* identifier segment it carries
WatchUrls ==
    {[text |-> l \o sch \o w \o L_youtube \o L_watch \o q \o id \o t \o r, id |-> id] :
        l \in {<<>>, Pad}, r \in {<<>>, Pad}, sch \in {<<>>, L_https, L_http},
        w \in {<<>>, L_www}, q \in {L_qv, L_app \o L_ampv}, t \in {<<>>, L_time},
        id \in VideoIds}
ShortUrls ==
    {[text |-> l \o sch \o L_youtu_be \o id \o r, id |-> id] :
        l \in {<<>>, Pad}, r \in {<<>>, Pad}, sch \in {<<>>, L_https, L_http},
        id \in VideoIds}
EmbedUrls ==
    {[text |-> l \o sch \o w \o L_youtube \o L_embed \o <<"/">> \o id \o r, id |-> id] :
        l \in {<<>>, Pad}, r \in {<<>>, Pad}, sch \in {<<>>, L_https, L_http},
        w \in {<<>>, L_www}, id \in VideoIds}
KnownUrls == WatchUrls \cup ShortUrls \cup EmbedUrls

\* bare identifiers, as typed: possibly with blanks around them
BareIds ==
    {[text |-> l \o id \o r, id |-> id] :
        l \in {<<>>, Pad}, r \in {<<>>, Pad}, id \in VideoIds \cup {L_abc, L_unknown}}

Inputs == Concats(MaxParts) \cup {u.text : u \in KnownUrls \cup BareIds}

\* what the user types into the input box
TypedInputs ==
    {Pad, Pad \o Id1 \o Pad, L_abc,
     L_https \o L_youtu_be \o Id1,
     L_https \o L_www \o L_youtube \o L_watch \o L_app \o L_ampv \o Id2}

(***************************************************************************)
(* Values: null, strings, parsed JSON objects                              *)
(***************************************************************************)
Null == [tag |-> "null"]
Str(m) == [tag |-> "string", value |-> m]
Obj(f) == [tag |-> "object", fields |-> f]

\* enum AnalysisStatus
IDLE == "IDLE"
LOADING == "LOADING"
SUCCESS == "SUCCESS"
ERROR == "ERROR"
AnalysisStatus == {IDLE, LOADING, SUCCESS, ERROR}

\* interface SentimentData, interface SentimentComponents
TopFields == {"video_id", "score", "label", "components", "model_accuracy"}
CompFields == {"transcript_mean", "comments_mean", "engagement"}

\* an identifier a provider may put in its answer instead of the requested one
OtherId == <<"X", "Y", "Z", "1", "2", "3">>

\* a JSON object holding the fields F (components holding cs); numbers are
\* kept as integers (score and accuracy in percent, means in tenths)
JsonObject(F, cs, vid) ==
    [k \in F |->
        CASE k = "video_id" -> vid
          [] k = "score" -> 81
          [] k = "label" -> "Positive"
          [] k = "components" ->
                [c \in cs |-> CASE c = "transcript_mean" -> 7
                                [] c = "comments_mean" -> 6
                                [] c = "engagement" -> 5]
          [] k = "model_accuracy" -> 88]

\* the field sets of the bodies a provider sends: complete, one required
\* field short, or none at all
TopShapes == {TopFields} \cup {TopFields \ {f} : f \in TopFields} \cup {{}}
CompShapes == {CompFields} \cup {CompFields \ {c} : c \in CompFields}

\* what a 2xx body can parse to: null, or an object
JsonValues(rid) ==
    {Null} \cup
    {Obj(JsonObject(F, cs, vid)) :
        F \in TopShapes, cs \in CompShapes, vid \in {rid, OtherId}}

\* every required field of SentimentData is there
WellFormed(v) ==
    /\ v.tag = "object"
    /\ TopFields \subseteq DOMAIN v.fields
    /\ CompFields \subseteq DOMAIN v.fields.components

(***************************************************************************)
(* The provider's answers to GET {BACKEND_URL}/analyse/{videoId}           *)
(***************************************************************************)
NetworkError == [kind |-> "network_error"]
HttpReply(code, json, value) ==
    [kind |-> "http", code |-> code, json |-> json, value |-> value]

Replies(rid) ==
    {NetworkError}
    \cup {HttpReply(code, FALSE, Null) : code \in {200, 404, 500}}
    \cup {HttpReply(200, TRUE, v) : v \in JsonValues(rid)}

\* Response.ok
Ok(res) == res.code >= 200 /\ res.code <= 299

\* how the promise of analyzeVideoSentiment settles on a res
Resolved(v) == [settled |-> "resolved", value |-> v]
Rejected(cause) == [settled |-> "rejected", cause |-> cause]

analyzeVideoSentiment(res) ==
    IF res.kind = "network_error" THEN Rejected("TypeError: Failed to fetch")
    ELSE IF ~Ok(res) THEN
        Rejected(CASE res.code = 404 -> "Error: Backend error 404"
                   [] res.code = 500 -> "Error: Backend error 500"
                   [] OTHER -> "Error: Backend error")
    ELSE IF ~res.json THEN Rejected("SyntaxError: Unexpected token")
    ELSE Resolved(res.value)

(***************************************************************************)
(* App                                                                     *)
(***************************************************************************)
GenericMessage == "Failed to process video. Please check the URL and try again."

\* if (!url) return;  the guard without trim()
IsEmpty(u) == u = <<>>

\* if (!url.trim()) return;
IsBlank(u) == Trim(u) = <<>>

\* a submit button that is never disabled
SubmitAlwaysEnabled == TRUE

\* <button type="submit" disabled={status === AnalysisStatus.LOADING}>: a form
\* whose submit button is disabled is not submitted
SubmitEnabled == status # LOADING

\* a try block without its catch clause
CatchesNothing(cause) == FALSE

\* catch (err): the clause has no condition
Catches(cause) == TRUE

\* setError(String(err)): the cause shown to the user
CatchMessageLeak(cause) == cause

\* setError('Failed to process video. ...')
CatchMessage(cause) == GenericMessage

\* the catch clause going back to the empty state
FailureStatusIdle == IDLE

\* setStatus(AnalysisStatus.ERROR) of the catch clause
FailureStatus == ERROR

Init ==
    /\ url = <<>>
    /\ status = IDLE
    /\ data = Null
    /\ error = Null
    /\ pending = <<>>
    /\ videoId = <<>>
    /\ reply = Null
    /\ logged = Null
    /\ uncaught = FALSE
    /\ lastEvent = "init"

\* onChange={(e) => setUrl(e.target.value)}
SetUrl(text) ==
    /\ url' = text
    /\ lastEvent' = "change"
    /\ UNCHANGED <<status, data, error, pending, videoId, reply, logged, uncaught>>

\* const videoId = extractVideoId(urlOrId), for every text the box can hold
videoIdOf == [u \in TypedInputs \cup {<<>>} |-> extractVideoId(u)]

\* the cells handleSubmit has written when it reaches its await (or returns)
AfterSubmit ==
    IF IsBlank(url)
    THEN [status |-> status, error |-> error, data |-> data,
          videoId |-> videoId, pending |-> pending, reply |-> reply]
    ELSE LET id == videoIdOf[url]
         IN  [status |-> LOADING, error |-> Null, data |-> Null,
              videoId |-> id, pending |-> Append(pending, [videoId |-> id]),
              reply |-> Null]

\* onSubmit={handleSubmit}, up to the await
HandleSubmit ==
    /\ SubmitEnabled
    /\ LET after == AfterSubmit
       IN  /\ status' = after.status
           /\ error' = after.error
           /\ data' = after.data
           /\ videoId' = after.videoId
           /\ pending' = after.pending
           /\ reply' = after.reply
    /\ lastEvent' = "submit"
    /\ UNCHANGED <<url, logged, uncaught>>

Remove(seq, i) == SubSeq(seq, 1, i - 1) \o SubSeq(seq, i + 1, Len(seq))

\* the provider answers the i-th outstanding request; handleSubmit resumes
Respond(i, r) ==
    LET outcome == analyzeVideoSentiment(r)
    IN  /\ pending' = Remove(pending, i)
        /\ reply' = r
        /\ lastEvent' = "response"
        /\ IF outcome.settled = "resolved"
           THEN /\ data' = outcome.value
                /\ status' = SUCCESS
                /\ UNCHANGED <<error, logged, uncaught>>
           ELSE IF Catches(outcome.cause)
           THEN /\ logged' = Str(outcome.cause)
                /\ error' = Str(CatchMessage(outcome.cause))
                /\ status' = FailureStatus
                /\ UNCHANGED <<data, uncaught>>
           ELSE /\ uncaught' = TRUE
                /\ UNCHANGED <<data, error, status, logged>>
        /\ UNCHANGED <<url, videoId>>

ProviderRespond ==
    \E i \in 1..Len(pending) : \E r \in Replies(pending[i].videoId) : Respond(i, r)

TypeUrl == \E text \in TypedInputs : SetUrl(text)

Next == TypeUrl \/ HandleSubmit \/ ProviderRespond

Spec == Init /\ [][Next]_vars

\* the provider answers every call it receives
FairSpec == Spec /\ WF_vars(ProviderRespond)

(***************************************************************************)
(* The two extraction functions on their own                               *)
(***************************************************************************)
NormInit ==
    /\ url \in Inputs
    /\ status = IDLE
    /\ data = Null
    /\ error = Null
    /\ pending = <<>>
    /\ videoId = <<>>
    /\ reply = Null
    /\ logged = Null
    /\ uncaught = FALSE
    /\ lastEvent = "init"

Idle == <<status, data, error, pending, reply, logged, uncaught>>

\* const videoId = extractVideoId(urlOrId)
Normalize ==
    /\ lastEvent = "init"
    /\ videoId' = extractVideoId(url)
    /\ lastEvent' = "normalize"
    /\ UNCHANGED <<url, Idle>>

\* the identifier handed back in as input
Renormalize ==
    /\ lastEvent = "normalize"
    /\ videoId' = extractVideoId(videoId)
    /\ lastEvent' = "renormalize"
    /\ UNCHANGED <<url, Idle>>

\* the generative service's extraction of the same input
GenNormalize ==
    /\ lastEvent = "init"
    /\ videoId' = videoIdMatch(url)
    /\ lastEvent' = "generative"
    /\ UNCHANGED <<url, Idle>>

NormNext == Normalize \/ Renormalize \/ GenNormalize

NormSpec == NormInit /\ [][NormNext]_vars

(***************************************************************************)
(* Properties                                                              *)
(***************************************************************************)
\* input that is empty or holds nothing but white space
OnlyBlanks(u) == \A k \in 1..Len(u) : u[k] \in WhiteSpace

\* the provider call failed in transport: no answer, or a non-2xx status
TransportFailure(res) ==
    \/ res.kind = "network_error"
    \/ (res.kind = "http" /\ (res.code < 200 \/ res.code > 299))

\* a 2xx answer whose body is not JSON or lacks a required field
Malformed(res) ==
    /\ res.kind = "http"
    /\ res.code >= 200 /\ res.code <= 299
    /\ (~res.json \/ ~WellFormed(res.value))

\* C1: the Success state carries the identifier computed from the submitted
\* input as its video_id, whatever identifier the provider's answer holds.
C1_SuccessHasLocalVideoId ==
    (status = SUCCESS /\ data.tag = "object") =>
        /\ "video_id" \in DOMAIN data.fields
        /\ data.fields.video_id = videoId

\* C2: a 2xx payload that is not JSON or lacks a required field ends the
\* submission in Error with the generic message, never in Success.
C2_MalformedEndsInError ==
    (lastEvent = "response" /\ Malformed(reply)) =>
        (status = ERROR /\ error = Str(GenericMessage))

\* C3: every transport failure (network error, non-2xx status) ends in Error
\* with the same non-empty message, and no failure escapes handleSubmit.
C3_TransportFailureCaught ==
    /\ ~uncaught
    /\ (lastEvent = "response" /\ TransportFailure(reply)) =>
            /\ status = ERROR
            /\ error = Str("Failed to process video. Please check the URL and try again.")
            /\ error.value # ""

C3_Witness ==
    /\ lastEvent = "response"
    /\ reply.kind = "http" /\ reply.code = 500
    /\ status = ERROR

\* C4: at most one request is in flight; a call is only started from outside
\* Loading and opens one Loading episode, and each Loading episode is closed
\* by exactly one answer, which is what enters Success or Error.
C4_OneRequestPerLoading ==
    [][ /\ Len(pending) <= 1 /\ Len(pending') <= 1
        /\ (status' = LOADING <=> Len(pending') = 1)
        /\ (Len(pending') > Len(pending) => (status # LOADING /\ status' = LOADING))
        /\ (Len(pending') < Len(pending) => (status = LOADING /\ status' \in {SUCCESS, ERROR}))
        /\ ((status' \in {SUCCESS, ERROR} /\ status' # status) =>
                (status = LOADING /\ Len(pending) = 1 /\ pending' = <<>>)) ]_vars

C4_Witness == status = LOADING /\ Len(pending) = 1 /\ ~OnlyBlanks(url)

\* C5: a submit of empty or white-space-only input, in any state (Idle,
\* Loading, Success, Error), leaves status, data and error as they are and
\* starts no provider call.
C5_BlankSubmitIsNoOp ==
    /\ [](OnlyBlanks(url) =>
            /\ AfterSubmit.status = status
            /\ AfterSubmit.data = data
            /\ AfterSubmit.error = error
            /\ AfterSubmit.pending = pending)
    /\ [][(lastEvent' = "submit" /\ OnlyBlanks(url)) =>
            UNCHANGED <<status, data, error, pending>>]_vars

C5_Witness ==
    /\ lastEvent = "submit"
    /\ url # <<>> /\ OnlyBlanks(url)
    /\ status = SUCCESS

C7_NormalizeExtractsId ==
    lastEvent = "normalize" =>
        \A u \in KnownUrls \cup BareIds : url = u.text => videoId = u.id

\* C8: normalizing the identifier that normalization produced gives that
\* identifier again.
C8_NormalizeIdempotent ==
    [][lastEvent' = "renormalize" => videoId' = videoId]_vars

C8_Witness ==
    /\ lastEvent = "renormalize"
    /\ \E u \in KnownUrls : url = u.text /\ videoId = u.id

\* C9: status, data and error agree: Idle and Loading have neither data nor
\* error, Success has data and no error, Error has a non-empty message and
\* no data.
C9_CellsConsistent ==
    /\ status \in {IDLE, LOADING} => (data = Null /\ error = Null)
    /\ status = SUCCESS => (data # Null /\ error = Null)
    /\ status = ERROR => (error.tag = "string" /\ error.value # "" /\ data = Null)

====
